---------------------------- MODULE Spec2Model ----------------------------
(***************************************************************************)
(* A model of dev/generate_cli_docs.py, the generator of the CocoIndex CLI *)
(* reference page.                                                         *)
(*                                                                         *)
(* A Python str is a sequence of one-character strings.  The text          *)
(* functions of the script are operators on such sequences, computed the   *)
(* way the script (and the re / str / io calls it makes) computes them.    *)
(* main() is a state machine over the output file.                         *)
(***************************************************************************)
EXTENDS Integers, Sequences, FiniteSets, TLC

VARIABLES
    \* escape_html_tags
    text,                \* the argument of the first call
    escaped,             \* escape_html_tags(text)
    escaped2,            \* escape_html_tags(escaped)
    passes,              \* how many times the escaper has been applied
    \* format_options_section, format_commands_section
    help_text,           \* the argument of both
    called,              \* the formatters that have returned
    formatted_options,   \* the rows of the options table, as records
    options_section,     \* what format_options_section returned
    formatted_commands,  \* the rows of the commands table, as records
    commands_section,    \* what format_commands_section returned
    \* main and its environment
    cli,                 \* what md_click.main.recursive_help(cli) yields
    linesep,             \* os.linesep of the platform
    docs_dir,            \* whether the directory docs/docs/core exists
    file,                \* cli-reference.md: [exists, content]
    pc,                  \* where main() is
    run,                 \* how many runs of main() have started
    docs,                \* main's docs
    markdown_content,    \* main's markdown_content
    content_changed,     \* main's content_changed
    message,             \* the last line main printed
    exit_status,         \* the exit status of the process
    \* history of the runs
    file_at_start,       \* the file when the current run started
    opened_for_write,    \* the current run has opened the file for writing
    failed_at,           \* the step of the current run that raised
    prev_completed,      \* the previous run ended without an exception
    prev_markdown,       \* the document the previous run assembled
    touched_before,      \* something else changed the file between the previous run and this one
    touched              \* something else changed the file after this run ended

escapeVars == << text, escaped, escaped2, passes >>
formatVars == << help_text, called, formatted_options, options_section,
                 formatted_commands, commands_section >>
envVars == << cli, linesep >>
mainVars == << docs_dir, file, pc, run, docs, markdown_content, content_changed,
               message, exit_status >>
historyVars == << file_at_start, opened_for_write, failed_at, prev_completed,
                  prev_markdown, touched_before, touched >>
vars == << escapeVars, formatVars, envVars, mainVars, historyVars >>

\* The character U+0060 (grave accent, the backtick of markdown), which a
\* TLA+ string literal cannot hold: one element of a string like any other.
BT == "BT"

\* Values that are not strings.
None == "None"

(***************************************************************************)
(* str and re primitives                                                   *)
(***************************************************************************)

\* The characters str.strip() removes and the regex class \s matches.
Whitespace == {" ", "\t", "\n", "\r"}

\* The regex class \w (ASCII part).
WordChars ==
    { "a", "b", "c", "d", "e", "f", "g", "h", "i", "j", "k", "l", "m",
      "n", "o", "p", "q", "r", "s", "t", "u", "v", "w", "x", "y", "z",
      "A", "B", "C", "D", "E", "F", "G", "H", "I", "J", "K", "L", "M",
      "N", "O", "P", "Q", "R", "S", "T", "U", "V", "W", "X", "Y", "Z",
      "0", "1", "2", "3", "4", "5", "6", "7", "8", "9", "_" }

\* s[i:].startswith(p), with i counted from 1.
StartsWithAt(s, i, p) ==
    /\ i + Len(p) - 1 <= Len(s)
    /\ \A k \in 1..Len(p) : s[i + k - 1] = p[k]

startswith(s, p) == StartsWithAt(s, 1, p)

\* The first index >= i that holds character c, or 0.
RECURSIVE IndexOfFrom(_, _, _)
IndexOfFrom(s, c, i) ==
    IF i > Len(s) THEN 0
    ELSE IF s[i] = c THEN i
    ELSE IndexOfFrom(s, c, i + 1)

\* The first index >= i that holds no whitespace, or Len(s) + 1.
RECURSIVE SkipSpace(_, _)
SkipSpace(s, i) ==
    IF i <= Len(s) /\ s[i] \in Whitespace THEN SkipSpace(s, i + 1) ELSE i

\* The last index <= i that holds no whitespace, or 0.
RECURSIVE SkipSpaceBack(_, _)
SkipSpaceBack(s, i) ==
    IF i >= 1 /\ s[i] \in Whitespace THEN SkipSpaceBack(s, i - 1) ELSE i

\* str.strip()
strip(s) ==
    LET a == SkipSpace(s, 1)
        b == SkipSpaceBack(s, Len(s))
    IN IF a > b THEN << >> ELSE SubSeq(s, a, b)

\* str.split(c) for a one-character separator.
RECURSIVE SplitFrom(_, _, _)
SplitFrom(s, c, i) ==
    LET j == IndexOfFrom(s, c, i)
    IN IF j = 0 THEN << SubSeq(s, i, Len(s)) >>
       ELSE << SubSeq(s, i, j - 1) >> \o SplitFrom(s, c, j + 1)

split(s, c) == SplitFrom(s, c, 1)

\* "".join(parts)
RECURSIVE Concat(_)
Concat(parts) ==
    IF parts = << >> THEN << >> ELSE Head(parts) \o Concat(Tail(parts))

\* sep.join(parts)
RECURSIVE join(_, _)
join(sep, parts) ==
    IF parts = << >> THEN << >>
    ELSE IF Len(parts) = 1 THEN parts[1]
    ELSE parts[1] \o sep \o join(sep, Tail(parts))

\* s.find(old, i): the first index >= i at which old occurs in s, or 0.
find(s, old, i) ==
    LET at == { j \in i..(Len(s) - Len(old) + 1) : StartsWithAt(s, j, old) }
    IN IF at = { } THEN 0 ELSE CHOOSE j \in at : \A k \in at : j <= k

\* The pieces of s between the non-overlapping occurrences of old, found
\* left to right from index i on.
RECURSIVE PiecesFrom(_, _, _)
PiecesFrom(s, old, i) ==
    LET j == find(s, old, i)
    IN IF j = 0 THEN << SubSeq(s, i, Len(s)) >>
       ELSE << SubSeq(s, i, j - 1) >> \o PiecesFrom(s, old, j + Len(old))

\* str.replace(old, new): every non-overlapping occurrence of old, left to
\* right, becomes new.
replace(s, old, new) == join(new, PiecesFrom(s, old, 1))

(***************************************************************************)
(* escape_html_tags                                                        *)
(***************************************************************************)

BACKTICK == <<"BT">>
HTTP_LOCALHOST == <<"h", "t", "t", "p", ":", "/", "/", "l", "o", "c", "a", "l", "h", "o", "s",
      "t", ":">>
HTTPS_PREFIX == <<"h", "t", "t", "p", "s", ":", "/", "/">>
LT_ENTITY == <<"&", "l", "t", ";">>
GT_ENTITY == <<"&", "g", "t", ";">>

\* The regex  http://localhost:<([^>]+)>  tried at index i: the index of the
\* closing ">" of the match, or 0 when it does not match there.  [^>]+ runs
\* to the first ">" after the "<" and must take at least one character.
MatchLocalhostAt(s, i) ==
    LET lt == i + Len(HTTP_LOCALHOST)
        gt == IndexOfFrom(s, ">", lt + 1)
    IN IF /\ StartsWithAt(s, i, HTTP_LOCALHOST)
          /\ lt <= Len(s)
          /\ s[lt] = "<"
          /\ gt > lt + 1
       THEN gt ELSE 0

\* re.sub(r"http://localhost:<([^>]+)>", r"`http://localhost:<\1>`", s)
RECURSIVE WrapLocalhostFrom(_, _)
WrapLocalhostFrom(s, i) ==
    IF i > Len(s) THEN << >>
    ELSE LET gt == MatchLocalhostAt(s, i)
             lt == i + Len(HTTP_LOCALHOST)
         IN IF gt > 0
            THEN BACKTICK \o HTTP_LOCALHOST \o << "<" >> \o SubSeq(s, lt + 1, gt - 1)
                     \o << ">" >> \o BACKTICK \o WrapLocalhostFrom(s, gt + 1)
            ELSE << s[i] >> \o WrapLocalhostFrom(s, i + 1)

\* The first index >= i that holds "<" or whitespace, or Len(s) + 1: where
\* the class [^<\s]+ stops.
RECURSIVE SkipHost(_, _)
SkipHost(s, i) ==
    IF i <= Len(s) /\ s[i] # "<" /\ s[i] \notin Whitespace
    THEN SkipHost(s, i + 1) ELSE i

\* The regex  https://([^<\s]+)<([^>]+)>  tried at index i: <<index of "<",
\* index of the closing ">">>, or <<0, 0>>.  [^<\s]+ is greedy and no shorter
\* run can be followed by "<", so the first group is the whole run.
MatchHttpsAt(s, i) ==
    LET h == i + Len(HTTPS_PREFIX)
        lt == SkipHost(s, h)
        gt == IndexOfFrom(s, ">", lt + 1)
    IN IF /\ StartsWithAt(s, i, HTTPS_PREFIX)
          /\ lt > h
          /\ lt <= Len(s)
          /\ s[lt] = "<"
          /\ gt > lt + 1
       THEN << lt, gt >> ELSE << 0, 0 >>

\* re.sub(r"https://([^<\s]+)<([^>]+)>", r"`https://\1<\2>`", s)
RECURSIVE WrapHttpsFrom(_, _)
WrapHttpsFrom(s, i) ==
    IF i > Len(s) THEN << >>
    ELSE LET m == MatchHttpsAt(s, i)
             h == i + Len(HTTPS_PREFIX)
         IN IF m[2] > 0
            THEN BACKTICK \o HTTPS_PREFIX \o SubSeq(s, h, m[1] - 1) \o << "<" >>
                     \o SubSeq(s, m[1] + 1, m[2] - 1) \o << ">" >> \o BACKTICK
                     \o WrapHttpsFrom(s, m[2] + 1)
            ELSE << s[i] >> \o WrapHttpsFrom(s, i + 1)

\* The two re.sub calls of escape_html_tags, in their order.
WrapPlaceholderUrls(s) == WrapHttpsFrom(WrapLocalhostFrom(s, 1), 1)

\* re.split(r"(`[^`]*`)", s) from index i: text, code span, text, ...  The
\* odd entries (counted from 1) are the text between the spans, the even
\* entries the spans with their backticks.
RECURSIVE SplitCodeFrom(_, _)
SplitCodeFrom(s, i) ==
    LET open == IndexOfFrom(s, BT, i)
        close == IF open = 0 THEN 0 ELSE IndexOfFrom(s, BT, open + 1)
    IN IF close = 0 THEN << SubSeq(s, i, Len(s)) >>
       ELSE << SubSeq(s, i, open - 1), SubSeq(s, open, close) >>
                \o SplitCodeFrom(s, close + 1)

SplitCode(s) == SplitCodeFrom(s, 1)

\* part.replace("<", "&lt;").replace(">", "&gt;")
EscapeAngles(part) == replace(replace(part, << "<" >>, LT_ENTITY), << ">" >>, GT_ENTITY)

\* The loop body without its test of the index: code spans escaped too.
EscapeEveryPart(parts, i) == EscapeAngles(parts[i])

\* The loop body: Python's even indices (odd here) are regular text.
EscapePart(parts, i) ==
    IF i % 2 = 1 THEN EscapeAngles(parts[i]) ELSE parts[i]

escape_html_tags(s) ==
    LET parts == SplitCode(WrapPlaceholderUrls(s))
    IN Concat([i \in 1..Len(parts) |-> EscapePart(parts, i)])

(***************************************************************************)
(* format_options_section                                                  *)
(***************************************************************************)

OPTIONS_HEADER == <<"O", "p", "t", "i", "o", "n", "s", ":">>
COMMANDS_HEADER == <<"C", "o", "m", "m", "a", "n", "d", "s", ":">>
NEWLINE == <<"\n">>

\* Python's None where the script holds a list index (indices count from 0).
NoIndex == -1

\* The header loop of format_options_section, from Python index i on:
\* <<options_start, commands_start>>.  A later "Options:" line replaces an
\* earlier one; the first "Commands:" line ends the loop.
RECURSIVE FindHeadersFrom(_, _, _)
FindHeadersFrom(lines, i, options_start) ==
    IF i >= Len(lines) THEN << options_start, NoIndex >>
    ELSE IF strip(lines[i + 1]) = OPTIONS_HEADER
         THEN FindHeadersFrom(lines, i + 1, i)
    ELSE IF strip(lines[i + 1]) = COMMANDS_HEADER
         THEN << options_start, i >>
    ELSE FindHeadersFrom(lines, i + 1, options_start)

\* lines[options_start + 1 : end_idx], where end_idx is commands_start
\* unless that is None or 0.
OptionsLines(lines) ==
    LET found == FindHeadersFrom(lines, 0, NoIndex)
        options_start == found[1]
        commands_start == found[2]
        end_idx == IF commands_start # NoIndex /\ commands_start # 0
                   THEN commands_start ELSE Len(lines)
    IN SubSeq(lines, options_start + 2, end_idx)

\* re.search(r"\s{2,}", s): the index of the first of two adjacent
\* whitespace characters, or 0.
RECURSIVE FindSpaceRun(_, _)
FindSpaceRun(s, i) ==
    IF i + 1 > Len(s) THEN 0
    ELSE IF s[i] \in Whitespace /\ s[i + 1] \in Whitespace THEN i
    ELSE FindSpaceRun(s, i + 1)

\* f"| `{key}` | {description} |"
FormatRow(key, description) ==
    <<"|", " ", "BT">> \o key \o <<"BT", " ", "|", " ">> \o description \o <<" ", "|">>

\* The row appended for the option held in cur: its description parts are
\* joined with single spaces, trimmed and escaped.
OptionRow(cur) ==
    [ key |-> cur.option,
      description |-> escape_html_tags(strip(join(<<" ">>, cur.description))) ]

\* line.startswith("  -") and not line.startswith("   ")
IsOptionStart(line) ==
    startswith(line, <<" ", " ", "-">>) /\ ~startswith(line, <<" ", " ", " ">>)

\* An option line: current_option and current_description after it.
StartOption(line) ==
    LET content == SubSeq(line, 3, Len(line))
        at == FindSpaceRun(content, 1)
        option_part == SubSeq(content, 1, at - 1)
        desc_part == SubSeq(content, SkipSpace(content, at), Len(content))
    IN IF at > 0
       THEN [ set |-> TRUE, option |-> strip(option_part),
              description |-> IF strip(desc_part) # << >>
                              THEN << strip(desc_part) >> ELSE << >> ]
       ELSE [ set |-> TRUE, option |-> strip(content), description |-> << >> ]

\* The parsing loop over options_lines from line i on, then the "add last
\* option" step.  cur is current_option (set: not None) with
\* current_description; rows is formatted_options, one record per row.
RECURSIVE ParseOptionLines(_, _, _, _)
ParseOptionLines(ls, i, rows, cur) ==
    IF i > Len(ls)
    THEN IF cur.set THEN Append(rows, OptionRow(cur)) ELSE rows
    ELSE LET line == ls[i]
         IN IF strip(line) = << >>
            THEN ParseOptionLines(ls, i + 1, rows, cur)
            ELSE IF IsOptionStart(line)
            THEN ParseOptionLines(ls, i + 1,
                     IF cur.set THEN Append(rows, OptionRow(cur)) ELSE rows,
                     StartOption(line))
            ELSE IF cur.set /\ strip(line) # << >>
            THEN ParseOptionLines(ls, i + 1, rows,
                     [cur EXCEPT !.description = Append(@, strip(line))])
            ELSE ParseOptionLines(ls, i + 1, rows, cur)

NoOption == [ set |-> FALSE, option |-> << >>, description |-> << >> ]

\* The early return of format_options_section left out.
FoundOptionsHeaderAlways(lines) == TRUE

\* options_start is not None
FoundOptionsHeader(lines) == FindHeadersFrom(lines, 0, NoIndex)[1] # NoIndex

\* formatted_options of format_options_section(help_text): a record (key,
\* description) for every row string, << >> after the early return.
OptionRows(help) ==
    LET lines == split(help, "\n")
    IN IF ~FoundOptionsHeader(lines) THEN << >>
       ELSE ParseOptionLines(OptionsLines(lines), 1, << >>, NoOption)

OPTIONS_TABLE_HEADER == <<"|", " ", "O", "p", "t", "i", "o", "n", " ", "|", " ", "D", "e", "s",
      "c", "r", "i", "p", "t", "i", "o", "n", " ", "|", "\n", "|", "-", "-", "-", "-", "-", "-",
      "-", "-", "|", "-", "-", "-", "-", "-", "-", "-", "-", "-", "-", "-", "-", "-", "|">>
COMMANDS_TABLE_HEADER == <<"|", " ", "C", "o", "m", "m", "a", "n", "d", " ", "|", " ", "D", "e",
      "s", "c", "r", "i", "p", "t", "i", "o", "n", " ", "|", "\n", "|", "-", "-", "-", "-", "-",
      "-", "-", "-", "-", "|", "-", "-", "-", "-", "-", "-", "-", "-", "-", "-", "-", "-", "-",
      "|">>

\* header + "\n" + "\n".join(rows) + "\n", or "" without rows.
FormatTable(header, rows) ==
    IF rows = << >> THEN << >>
    ELSE header \o NEWLINE
         \o join(NEWLINE, [k \in 1..Len(rows) |-> FormatRow(rows[k].key, rows[k].description)])
         \o NEWLINE

format_options_section(help) ==
    FormatTable(OPTIONS_TABLE_HEADER, OptionRows(help))

(***************************************************************************)
(* format_commands_section                                                 *)
(***************************************************************************)

TRUNCATE_OVER == 80
TRUNCATE_KEEP == 77
ELLIPSIS == <<".", ".", ".">>

\* The first Python index >= i of a line that is "Commands:" once trimmed.
RECURSIVE FindCommandsFrom(_, _)
FindCommandsFrom(lines, i) ==
    IF i >= Len(lines) THEN NoIndex
    ELSE IF strip(lines[i + 1]) = COMMANDS_HEADER THEN i
    ELSE FindCommandsFrom(lines, i + 1)

\* The first index >= i that holds no \w character, or Len(s) + 1.
RECURSIVE SkipWord(_, _)
SkipWord(s, i) ==
    IF i <= Len(s) /\ s[i] \in WordChars THEN SkipWord(s, i + 1) ELSE i

\* re.match(r"^  (\w+)\s{2,}(.+)$", line).  \w+ takes the whole word.  \s{2,}
\* takes the whole whitespace run, and gives back its last character to
\* (.+) when nothing else follows, which needs a run of three.
MatchCommandLine(line) ==
    LET w == SkipWord(line, 3)
        e == SkipSpace(line, w)
        n == Len(line)
    IN IF /\ startswith(line, <<" ", " ">>)
          /\ w > 3
          /\ \/ e - w >= 2 /\ e <= n
             \/ e - w >= 3 /\ e > n
       THEN [ matched |-> TRUE, command |-> SubSeq(line, 3, w - 1),
              rest |-> IF e <= n THEN SubSeq(line, e, n) ELSE SubSeq(line, n, n) ]
       ELSE [ matched |-> FALSE, command |-> << >>, rest |-> << >> ]

\* Truncate with the comparison off by one.
TruncateFrom80(description) ==
    IF Len(description) >= TRUNCATE_OVER
    THEN SubSeq(description, 1, TRUNCATE_KEEP) \o ELLIPSIS
    ELSE description

\* if len(description) > 80: description = description[:77] + "..."
Truncate(description) ==
    IF Len(description) > TRUNCATE_OVER
    THEN SubSeq(description, 1, TRUNCATE_KEEP) \o ELLIPSIS
    ELSE description

\* The loop over commands_lines from line i on: formatted_commands, one
\* record per row; line is the line the row was made from.
RECURSIVE ParseCommandLines(_, _)
ParseCommandLines(ls, i) ==
    IF i > Len(ls) THEN << >>
    ELSE LET line == ls[i]
             m == MatchCommandLine(line)
         IN IF strip(line) # << >> /\ m.matched
            THEN << [ key |-> m.command,
                      description |-> Truncate(strip(m.rest)),
                      line |-> line ] >> \o ParseCommandLines(ls, i + 1)
            ELSE ParseCommandLines(ls, i + 1)

\* formatted_commands of format_commands_section(help_text).
CommandRows(help) ==
    LET lines == split(help, "\n")
        commands_start == FindCommandsFrom(lines, 0)
    IN IF commands_start = NoIndex THEN << >>
       ELSE ParseCommandLines(SubSeq(lines, commands_start + 2, Len(lines)), 1)

format_commands_section(help) ==
    FormatTable(COMMANDS_TABLE_HEADER, CommandRows(help))

(***************************************************************************)
(* clean_usage_line, extract_description, generate_command_docs            *)
(***************************************************************************)

\* usage.replace("Usage: cli ", "Usage: cocoindex ")
clean_usage_line(usage) ==
    replace(usage, <<"U", "s", "a", "g", "e", ":", " ", "c", "l", "i", " ">>, <<"U", "s", "a",
      "g", "e", ":", " ", "c", "o", "c", "o", "i", "n", "d", "e", "x", " ">>)

USAGE_PREFIX == <<"U", "s", "a", "g", "e", ":">>

\* The loop of extract_description from line i on: description_lines.
RECURSIVE DescriptionLinesFrom(_, _, _)
DescriptionLinesFrom(lines, i, in_description) ==
    IF i > Len(lines) THEN << >>
    ELSE LET line == lines[i]
         IN IF startswith(line, USAGE_PREFIX)
            THEN DescriptionLinesFrom(lines, i + 1, TRUE)
            ELSE IF strip(line) \in { OPTIONS_HEADER, COMMANDS_HEADER }
            THEN << >>
            ELSE IF in_description /\ strip(line) # << >>
            THEN << strip(line) >> \o DescriptionLinesFrom(lines, i + 1, in_description)
            ELSE DescriptionLinesFrom(lines, i + 1, in_description)

extract_description(help) ==
    escape_html_tags(join(<<"\n", "\n">>, DescriptionLinesFrom(split(help, "\n"), 1, FALSE)))

\* The code points of the printable ASCII characters, U+0020 to U+007E, in
\* their order: Python compares str values code point by code point.
ASCII == <<" ", "!", "\"", "#", "$", "%", "&", "'", "(", ")", "*", "+", ",", "-", ".", "/", "0",
      "1", "2", "3", "4", "5", "6", "7", "8", "9", ":", ";", "<", "=", ">", "?", "@", "A", "B",
      "C", "D", "E", "F", "G", "H", "I", "J", "K", "L", "M", "N", "O", "P", "Q", "R", "S", "T",
      "U", "V", "W", "X", "Y", "Z", "[", "\\", "]", "^", "_", "BT", "a", "b", "c", "d", "e", "f",
      "g", "h", "i", "j", "k", "l", "m", "n", "o", "p", "q", "r", "s", "t", "u", "v", "w", "x",
      "y", "z", "{", "|", "}", "~">>

CodePoint(c) == 31 + CHOOSE i \in 1..Len(ASCII) : ASCII[i] = c

\* a < b for two str values.
RECURSIVE StrLess(_, _)
StrLess(a, b) ==
    IF b = << >> THEN FALSE
    ELSE IF a = << >> THEN TRUE
    ELSE IF Head(a) = Head(b) THEN StrLess(Tail(a), Tail(b))
    ELSE CodePoint(Head(a)) < CodePoint(Head(b))

\* doc put into a list sorted by name, behind the entries that do not
\* compare greater.
RECURSIVE InsertByName(_, _)
InsertByName(sorted, doc) ==
    IF sorted = << >> THEN << doc >>
    ELSE IF StrLess(doc.name, Head(sorted).name) THEN << doc >> \o sorted
    ELSE << Head(sorted) >> \o InsertByName(Tail(sorted), doc)

\* sorted(subcommands, key=lambda x: x["command"].name): a stable sort.
RECURSIVE SortedByName(_)
SortedByName(subcommands) ==
    IF subcommands = << >> THEN << >>
    ELSE InsertByName(SortedByName(SubSeq(subcommands, 1, Len(subcommands) - 1)),
                      subcommands[Len(subcommands)])

\* The docs with a parent, in their order.
RECURSIVE Subcommands(_)
Subcommands(doclist) ==
    IF doclist = << >> THEN << >>
    ELSE (IF Head(doclist).parent # << >> THEN << Head(doclist) >> ELSE << >>)
             \o Subcommands(Tail(doclist))

\* The Python index of the last doc without a parent (main_cli), or NoIndex.
RECURSIVE MainCliFrom(_, _, _)
MainCliFrom(doclist, i, main_cli) ==
    IF i >= Len(doclist) THEN main_cli
    ELSE MainCliFrom(doclist, i + 1, IF doclist[i + 1].parent = << >> THEN i ELSE main_cli)

\* f"{command_name}" for a click command: its name, or None.
NameText(doc) == IF doc.named THEN doc.name ELSE <<"N", "o", "n", "e">>

\* Comparing the name None with any name raises TypeError; sorted() compares
\* as soon as it has two entries.
SortRaises(subcommands) ==
    /\ Len(subcommands) >= 2
    /\ \E k \in 1..Len(subcommands) : ~subcommands[k].named

\* The lines appended for the main CLI.
MainSection(main_cli) ==
    LET help == main_cli.help
        description == extract_description(help)
        options_sec == format_options_section(help)
        commands_sec == format_commands_section(help)
    IN << <<"#", " ", "C", "L", "I", " ", "C", "o", "m", "m", "a", "n", "d", "s", " ", "R", "e",
      "f", "e", "r", "e", "n", "c", "e">>, << >>,
          <<"T", "h", "i", "s", " ", "p", "a", "g", "e", " ", "c", "o", "n", "t", "a", "i", "n",
      "s", " ", "t", "h", "e", " ", "d", "e", "t", "a", "i", "l", "e", "d", " ", "h", "e", "l",
      "p", " ", "i", "n", "f", "o", "r", "m", "a", "t", "i", "o", "n", " ", "f", "o", "r", " ",
      "a", "l", "l", " ", "C", "o", "c", "o", "I", "n", "d", "e", "x", " ", "C", "L", "I", " ",
      "c", "o", "m", "m", "a", "n", "d", "s", ".">>,
          << >> >>
       \o (IF description # << >>
           THEN << <<"#", "#", " ", "O", "v", "e", "r", "v", "i", "e",
      "w">>, << >>, description, << >> >> ELSE << >>)
       \o << <<"#", "#", " ", "U", "s", "a", "g", "e">>, << >>, <<"BT", "BT", "BT", "s",
      "h">>, clean_usage_line(main_cli.usage), <<"BT", "BT", "BT">>, << >> >>
       \o (IF options_sec # << >>
           THEN << <<"#", "#", " ", "G", "l", "o", "b", "a", "l", " ", "O", "p", "t", "i", "o",
      "n", "s">>, << >>, options_sec, << >> >> ELSE << >>)
       \o (IF commands_sec # << >>
           THEN << <<"#", "#", " ", "C", "o", "m", "m", "a", "n", "d",
      "s">>, << >>, commands_sec, << >> >> ELSE << >>)

\* The lines appended for one subcommand.
SubcommandSection(doc) ==
    LET help == doc.help
        description == extract_description(help)
        options_sec == format_options_section(help)
    IN << <<"#", "#", "#", " ", "BT">> \o NameText(doc) \o <<"BT">>, << >> >>
       \o (IF description # << >> THEN << description, << >> >> ELSE << >>)
       \o << <<"*", "*", "U", "s", "a", "g", "e", ":", "*", "*">>, << >>, <<"BT", "BT", "BT", "b",
      "a", "s", "h">>, clean_usage_line(doc.usage), <<"BT", "BT", "BT">>, << >> >>
       \o (IF options_sec # << >>
           THEN << <<"*", "*", "O", "p", "t", "i", "o", "n", "s", ":", "*",
      "*">>, << >>, options_sec, << >> >> ELSE << >>)
       \o << <<"-", "-", "-">>, << >> >>

RECURSIVE SubcommandSections(_)
SubcommandSections(sorted) ==
    IF sorted = << >> THEN << >>
    ELSE SubcommandSection(Head(sorted)) \o SubcommandSections(Tail(sorted))

\* The subcommands in the order they were yielded: the loop without sorted().
DetailsUnsorted(doclist) == Subcommands(doclist)

\* The order in which the subcommand sections are generated.
DetailsOrder(doclist) == SortedByName(Subcommands(doclist))

\* generate_command_docs(doclist), when sorted() does not raise.
generate_command_docs(doclist) ==
    LET main_cli == MainCliFrom(doclist, 0, NoIndex)
    IN join(NEWLINE,
            (IF main_cli # NoIndex THEN MainSection(doclist[main_cli + 1]) ELSE << >>)
            \o << <<"#", "#", " ", "C", "o", "m", "m", "a", "n", "d", " ", "D", "e", "t", "a",
      "i", "l", "s">>, << >> >>
            \o SubcommandSections(DetailsOrder(doclist)))

(***************************************************************************)
(* Arguments of the two table formatters: every help text of at most       *)
(* MaxLines of these lines, the commands listings with a description of    *)
(* TRUNCATE_KEEP - 1 to MaxDescriptionLen characters (followed by 0 or 2   *)
(* spaces), and the example help text of the documentation.                *)
(***************************************************************************)
MaxLines == 3
MaxDescriptionLen == 82

HelpLines ==
    { <<"O", "p", "t", "i", "o", "n", "s", ":">>,
      <<"O", "p", "t", "i", "o", "n", "s", ":", " ">>,
      <<"C", "o", "m", "m", "a", "n", "d", "s", ":">>,
      <<" ", " ", "-", "v", " ", " ", "B", "e", " ", "<", "n", ">">>,
      <<" ", " ", "-", "-", "o", "u", "t", " ", "X", " ", " ", " ", "T", "o", " ", "BT", "<", "p",
      ">", "BT", ".">>,
      <<" ", " ", "-", "-", "f", "l", "a", "g">>,
      <<" ", " ", " ", " ", " ", " ", "D", "e", "f", "a", "u", "l", "t", ".">>,
      <<" ", " ", "E", "p", "i", "l", "o", "g", ".">>,
      <<>>,
      <<" ", " ", "s", "h", "o", "w", " ", " ", "S", "h", "o", "w", " ", "<", "n", "a", "m", "e",
      ">">> }

RECURSIVE LineSeqs(_)
LineSeqs(n) ==
    IF n = 0 THEN { << >> }
    ELSE LET shorter == LineSeqs(n - 1)
         IN shorter \cup { Append(ls, l) : ls \in shorter, l \in HelpLines }

DIGITS == <<"0", "1", "2", "3", "4", "5", "6", "7", "8", "9">>

\* A description of n characters: 1234567890123...
Digits(n) == [i \in 1..n |-> DIGITS[(i % 10) + 1]]

LongCommandHelps ==
    { <<"C", "o", "m", "m", "a", "n", "d", "s", ":", "\n", " ", " ", "l", "s", " ", " ",
      " ">> \o Digits(n) \o [i \in 1..pad |-> " "] :
          n \in (TRUNCATE_KEEP - 1)..MaxDescriptionLen, pad \in {0, 2} }

ExampleHelp ==
    <<"U", "s", "a", "g", "e", ":", " ", "c", "l", "i", " ", "f", "o", "o", " ", "[", "O", "P",
      "T", "I", "O", "N", "S", "]", "\n", "\n", " ", " ", "D", "o", "e", "s", " ", "t", "h", "e",
      " ", "f", "o", "o", " ", "t", "h", "i", "n", "g", ".", "\n", "\n", "O", "p", "t", "i", "o",
      "n", "s", ":", "\n", " ", " ", "-", "v", ",", " ", "-", "-", "v", "e", "r", "b", "o", "s",
      "e", " ", " ", "I", "n", "c", "r", "e", "a", "s", "e", " ", "v", "e", "r", "b", "o", "s",
      "i", "t", "y", "\n", " ", " ", "-", "-", "o", "u", "t", " ", "T", "E", "X", "T", " ", " ",
      " ", " ", " ", "O", "u", "t", "p", "u", "t", " ", "p", "a", "t", "h", ".", "\n", " ", " ",
      " ", " ", " ", " ", " ", " ", " ", " ", " ", " ", " ", " ", " ", " ", " ", " ", "D", "e",
      "f", "a", "u", "l", "t", "s", " ", "t", "o", " ", "s", "t", "d", "o", "u", "t", ".", "\n">>

HelpTexts ==
    { join(NEWLINE, ls) : ls \in LineSeqs(MaxLines) }
        \cup LongCommandHelps \cup { ExampleHelp }

(***************************************************************************)
(* Arguments of the escaper: every concatenation of at most MaxPieces of   *)
(* these pieces.                                                           *)
(***************************************************************************)
MaxPieces == 4

EscapePieces ==
    { <<"BT">>, <<"<">>, <<"<", "p", ">">>, <<" ">>, <<"h", "t", "t", "p", ":", "/", "/", "l",
      "o", "c", "a", "l", "h", "o", "s", "t", ":">>, <<"h", "t", "t", "p", "s", ":", "/", "/",
      "h">> }

RECURSIVE PieceTexts(_)
PieceTexts(n) ==
    IF n = 0 THEN { << >> }
    ELSE LET shorter == PieceTexts(n - 1)
         IN shorter \cup { t \o p : t \in shorter, p \in EscapePieces }

EscapeInputs == PieceTexts(MaxPieces)

(***************************************************************************)
(* What md_click.main.recursive_help yields: one record per command, with  *)
(* its parent's name ("" for the root), its own name (named: not None),    *)
(* its usage line and its help text.                                       *)
(***************************************************************************)
ROOT ==
    [ parent |-> << >>, name |-> <<"c", "l", "i">>, named |-> TRUE,
      usage |-> <<"U", "s", "a", "g", "e", ":", " ", "c", "l", "i", " ", "[", "O", "P", "T", "I",
      "O", "N", "S", "]", " ", "C", "O", "M", "M", "A", "N", "D">>,
      help |-> <<"U", "s", "a", "g", "e", ":", " ", "c", "l", "i", " ", "[", "O", "P", "T", "I",
      "O", "N", "S", "]", " ", "C", "O", "M", "M", "A", "N", "D", "\n", "\n", " ", " ", "C", "L",
      "I", " ", "f", "o", "r", " ", "<", "a", "p", "p", ">", ".", "\n", "\n", "O", "p", "t", "i",
      "o", "n", "s", ":", "\n", " ", " ", "-", "-", "v", "e", "r", "s", "i", "o", "n", " ", " ",
      "S", "h", "o", "w", " ", "<", "v", ">", ".", "\n", "\n", "C", "o", "m", "m", "a", "n", "d",
      "s", ":", "\n", " ", " ", "l", "s", " ", " ", " ", " ", "L", "i", "s", "t", " ", "f", "l",
      "o", "w", "s", ".", "\n", " ", " ", "s", "h", "o", "w", " ", " ", "S", "h", "o", "w", " ",
      "<", "n", "a", "m", "e", ">", ".", "\n">> ]

LS ==
    [ parent |-> <<"c", "l", "i">>, name |-> <<"l", "s">>, named |-> TRUE,
      usage |-> <<"U", "s", "a", "g", "e", ":", " ", "c", "l", "i", " ", "l", "s", " ", "[", "O",
      "P", "T", "I", "O", "N", "S", "]">>,
      help |-> <<"U", "s", "a", "g", "e", ":", " ", "c", "l", "i", " ", "l", "s", " ", "[", "O",
      "P", "T", "I", "O", "N", "S", "]", "\n", "\n", " ", " ", "L", "i", "s", "t", " ", "f", "l",
      "o", "w", "s", ".", "\n", "\n", "O", "p", "t", "i", "o", "n", "s", ":", "\n", " ", " ", "-",
      "-", "h", "e", "l", "p", " ", " ", "S", "h", "o", "w", " ", "t", "h", "i", "s", ".", "\n">> ]

SHOW ==
    [ parent |-> <<"c", "l", "i">>, name |-> <<"s", "h", "o", "w">>, named |-> TRUE,
      usage |-> <<"U", "s", "a", "g", "e", ":", " ", "c", "l", "i", " ", "s", "h", "o", "w", " ",
      "N", "A", "M", "E">>,
      help |-> <<"U", "s", "a", "g", "e", ":", " ", "c", "l", "i", " ", "s", "h", "o", "w", " ",
      "N", "A", "M", "E", "\n", "\n", " ", " ", "S", "h", "o", "w", " ", "<", "n", "a", "m", "e",
      ">", ".", "\n">> ]

\* A command of a nested group with the name of a top-level command.
FLOW_SHOW ==
    [ parent |-> <<"f", "l", "o", "w">>, name |-> <<"s", "h", "o", "w">>, named |-> TRUE,
      usage |-> <<"U", "s", "a", "g", "e", ":", " ", "c", "l", "i", " ", "f", "l", "o", "w", " ",
      "s", "h", "o", "w", " ", "N", "A", "M", "E">>,
      help |-> <<"U", "s", "a", "g", "e", ":", " ", "c", "l", "i", " ", "f", "l", "o", "w", " ",
      "s", "h", "o", "w", " ", "N", "A", "M", "E", "\n">> ]

\* A click command created without a name.
UNNAMED ==
    [ parent |-> <<"c", "l", "i">>, name |-> << >>, named |-> FALSE,
      usage |-> <<"U", "s", "a", "g", "e", ":", " ", "c", "l", "i">>,
      help |-> <<"U", "s", "a", "g", "e", ":", " ", "c", "l", "i", "\n">> ]

\* A command whose usage line holds a carriage return.
UPDATE ==
    [ parent |-> <<"c", "l", "i">>, name |-> <<"u", "p", "d", "a", "t", "e">>, named |-> TRUE,
      usage |-> <<"U", "s", "a", "g", "e", ":", " ", "c", "l", "i", " ", "u", "p", "d", "a", "t",
      "e", " ", "A", "\r", "B">>,
      help |-> <<"U", "s", "a", "g", "e", ":", " ", "c", "l", "i", " ", "u", "p", "d", "a", "t",
      "e", " ", "A", "\n">> ]

\* Arguments of generate_command_docs: every list of at most MaxDocs
\* different records of these.
MaxDocs == 3

DocPool == { ROOT, LS, SHOW, FLOW_SHOW, UNNAMED }

RECURSIVE DocLists(_)
DocLists(n) ==
    IF n = 0 THEN { << >> }
    ELSE LET shorter == DocLists(n - 1)
         IN shorter \cup
                UNION { { Append(ds, d) :
                            d \in { e \in DocPool : \A k \in 1..Len(ds) : ds[k] # e } } :
                        ds \in shorter }

\* The command sets main() is run on.
CliSets ==
    { << ROOT, SHOW, LS >>, << ROOT, UPDATE >>, << ROOT, UNNAMED, LS >>, << >> }

(***************************************************************************)
(* The output file, read and written in text mode                          *)
(***************************************************************************)
CR == <<"\r">>
CRLF == <<"\r", "\n">>

\* f.write(s) on a file opened with open(path, "w", encoding="utf-8"): every
\* "\n" is written as os.linesep.
WriteText(s, sep) == replace(s, NEWLINE, sep)

\* f.read() on a file opened with open(path, "r", encoding="utf-8"):
\* universal newlines, "\r\n" and "\r" are read as "\n".
ReadText(content) == replace(replace(content, CRLF, NEWLINE), CR, NEWLINE)

NoFile == [ exists |-> FALSE, content |-> << >> ]

\* A file left by an earlier version of the generator.
StaleFile == [ exists |-> TRUE, content |-> <<"#", " ", "C", "L", "I", "\n">> ]

\* How many times main() is run.
MaxRuns == 2

\* The exit status of a process that has not exited.
Running == -1

(***************************************************************************)
(* The specifications.  Each draws the arguments of the functions it is    *)
(* about in its initial state and applies them; the variables of the       *)
(* others stay idle.                                                       *)
(***************************************************************************)

EscapeIdle ==
    /\ text = << >>
    /\ escaped = None
    /\ escaped2 = None
    /\ passes = 0

FormatIdle ==
    /\ help_text = << >>
    /\ called = { }
    /\ formatted_options = << >>
    /\ options_section = None
    /\ formatted_commands = << >>
    /\ commands_section = None

MainIdle ==
    /\ cli = << >>
    /\ linesep = NEWLINE
    /\ docs_dir = FALSE
    /\ file = NoFile
    /\ pc = "idle"
    /\ run = 0
    /\ docs = << >>
    /\ markdown_content = << >>
    /\ content_changed = TRUE
    /\ message = ""
    /\ exit_status = Running
    /\ file_at_start = NoFile
    /\ opened_for_write = FALSE
    /\ failed_at = "none"
    /\ prev_completed = FALSE
    /\ prev_markdown = << >>
    /\ touched_before = FALSE
    /\ touched = FALSE

allMainVars == << envVars, mainVars, historyVars >>

InitEscape ==
    /\ text \in EscapeInputs
    /\ escaped = None
    /\ escaped2 = None
    /\ passes = 0
    /\ FormatIdle
    /\ MainIdle

\* escape_html_tags(text)
FirstPass ==
    /\ passes = 0
    /\ escaped' = escape_html_tags(text)
    /\ passes' = 1
    /\ UNCHANGED << text, escaped2, formatVars, allMainVars >>

\* escape_html_tags applied to its own output
SecondPass ==
    /\ passes = 1
    /\ escaped2' = escape_html_tags(escaped)
    /\ passes' = 2
    /\ UNCHANGED << text, escaped, formatVars, allMainVars >>

NextEscape == FirstPass \/ SecondPass

SpecEscape == InitEscape /\ [][NextEscape]_vars

InitFormat ==
    /\ help_text \in HelpTexts
    /\ called = { }
    /\ formatted_options = << >>
    /\ options_section = None
    /\ formatted_commands = << >>
    /\ commands_section = None
    /\ EscapeIdle
    /\ MainIdle

\* format_options_section(help_text)
FormatOptions ==
    /\ "format_options_section" \notin called
    /\ called' = called \cup { "format_options_section" }
    /\ formatted_options' = OptionRows(help_text)
    /\ options_section' = format_options_section(help_text)
    /\ UNCHANGED << help_text, formatted_commands, commands_section, escapeVars, allMainVars >>

\* format_commands_section(help_text)
FormatCommands ==
    /\ "format_commands_section" \notin called
    /\ called' = called \cup { "format_commands_section" }
    /\ formatted_commands' = CommandRows(help_text)
    /\ commands_section' = format_commands_section(help_text)
    /\ UNCHANGED << help_text, formatted_options, options_section, escapeVars, allMainVars >>

NextFormat == FormatOptions \/ FormatCommands

SpecFormat == InitFormat /\ [][NextFormat]_vars

(***************************************************************************)
(* main(), step by step, and the runs of the script one after another      *)
(***************************************************************************)

InitMain ==
    /\ cli \in CliSets
    /\ linesep \in { NEWLINE, CRLF }
    /\ \/ docs_dir = FALSE /\ file = NoFile
       \/ docs_dir = TRUE /\ file = StaleFile
    /\ pc = "idle"
    /\ run = 0
    /\ docs = << >>
    /\ markdown_content = << >>
    /\ content_changed = TRUE
    /\ message = ""
    /\ exit_status = Running
    /\ file_at_start = file
    /\ opened_for_write = FALSE
    /\ failed_at = "none"
    /\ prev_completed = FALSE
    /\ prev_markdown = << >>
    /\ touched_before = FALSE
    /\ touched = FALSE
    /\ EscapeIdle
    /\ FormatIdle

\* The script is started: print("Generating CocoIndex CLI documentation...")
Start ==
    /\ pc \in { "idle", "done", "exited" }
    /\ run < MaxRuns
    /\ run' = run + 1
    /\ pc' = "introspect"
    /\ docs' = << >>
    /\ markdown_content' = << >>
    /\ content_changed' = TRUE
    /\ message' = "Generating CocoIndex CLI documentation..."
    /\ exit_status' = Running
    /\ file_at_start' = file
    /\ opened_for_write' = FALSE
    /\ failed_at' = "none"
    /\ prev_completed' = (pc = "done")
    /\ prev_markdown' = markdown_content
    /\ touched_before' = touched
    /\ touched' = FALSE
    /\ UNCHANGED << docs_dir, file, envVars, escapeVars, formatVars >>

\* docs = list(md_click.main.recursive_help(cli)), which may raise
Introspect ==
    /\ pc = "introspect"
    /\ \/ /\ docs' = cli
          /\ pc' = "generate"
          /\ message' = "Found commands to document"
          /\ UNCHANGED failed_at
       \/ /\ pc' = "except"
          /\ failed_at' = "introspect"
          /\ UNCHANGED << docs, message >>
    /\ UNCHANGED << docs_dir, file, run, markdown_content, content_changed,
                    exit_status, file_at_start, opened_for_write, prev_completed,
                    prev_markdown, touched_before, touched, envVars, escapeVars,
                    formatVars >>

\* markdown_content = generate_command_docs(docs)
Generate ==
    /\ pc = "generate"
    /\ IF SortRaises(Subcommands(docs))
       THEN /\ pc' = "except"
            /\ failed_at' = "generate"
            /\ UNCHANGED markdown_content
       ELSE /\ markdown_content' = generate_command_docs(docs)
            /\ pc' = "mkdir"
            /\ UNCHANGED failed_at
    /\ UNCHANGED << docs_dir, file, run, docs, content_changed, message,
                    exit_status, file_at_start, opened_for_write, prev_completed,
                    prev_markdown, touched_before, touched, envVars, escapeVars,
                    formatVars >>

\* docs_dir.mkdir(parents=True, exist_ok=True)
Mkdir ==
    /\ pc = "mkdir"
    /\ docs_dir' = TRUE
    /\ pc' = "compare"
    /\ UNCHANGED << file, run, docs, markdown_content, content_changed, message,
                    exit_status, historyVars, envVars, escapeVars, formatVars >>

\* content_changed: True, or existing_content != markdown_content when the
\* file exists
Compare ==
    /\ pc = "compare"
    /\ content_changed' =
           IF file.exists THEN ReadText(file.content) # markdown_content ELSE TRUE
    /\ pc' = "write"
    /\ UNCHANGED << docs_dir, file, run, docs, markdown_content, message,
                    exit_status, historyVars, envVars, escapeVars, formatVars >>

\* if content_changed: the file is opened for writing (and truncated) and
\* written, unless the write raises
Write ==
    /\ pc = "write"
    /\ content_changed
    /\ opened_for_write' = TRUE
    /\ \/ /\ file' = [ exists |-> TRUE, content |-> WriteText(markdown_content, linesep) ]
          /\ message' = "CLI documentation generated successfully"
          /\ pc' = "done"
          /\ exit_status' = 0
          /\ UNCHANGED failed_at
       \/ /\ file' = [ exists |-> TRUE, content |-> << >> ]
          /\ pc' = "except"
          /\ failed_at' = "write"
          /\ UNCHANGED << message, exit_status >>
    /\ UNCHANGED << docs_dir, run, docs, markdown_content, content_changed,
                    file_at_start, prev_completed, prev_markdown, touched_before,
                    touched, envVars, escapeVars, formatVars >>

\* else: print("CLI documentation is up to date ...")
UpToDate ==
    /\ pc = "write"
    /\ ~content_changed
    /\ message' = "CLI documentation is up to date"
    /\ pc' = "done"
    /\ exit_status' = 0
    /\ UNCHANGED << docs_dir, file, run, docs, markdown_content, content_changed,
                    historyVars, envVars, escapeVars, formatVars >>

\* The handler without its sys.exit(1): the script ends with status 0.
ExceptNoExit ==
    /\ pc = "except"
    /\ message' = "Error generating documentation"
    /\ exit_status' = 0
    /\ pc' = "exited"
    /\ UNCHANGED << docs_dir, file, run, docs, markdown_content, content_changed,
                    historyVars, envVars, escapeVars, formatVars >>

\* except Exception: the error is printed, sys.exit(1)
Except ==
    /\ pc = "except"
    /\ message' = "Error generating documentation"
    /\ exit_status' = 1
    /\ pc' = "exited"
    /\ UNCHANGED << docs_dir, file, run, docs, markdown_content, content_changed,
                    historyVars, envVars, escapeVars, formatVars >>

\* Between two runs something else replaces or removes the output file.
ExternalTouch ==
    /\ pc \in { "done", "exited" }
    /\ run < MaxRuns
    /\ file' \in { NoFile, StaleFile } \ { file }
    /\ touched' = TRUE
    /\ UNCHANGED << docs_dir, pc, run, docs, markdown_content, content_changed,
                    message, exit_status, file_at_start, opened_for_write,
                    failed_at, prev_completed, prev_markdown, touched_before,
                    envVars, escapeVars, formatVars >>

NextMain ==
    \/ Start
    \/ Introspect
    \/ Generate
    \/ Mkdir
    \/ Compare
    \/ Write
    \/ UpToDate
    \/ Except
    \/ ExternalTouch

SpecMain == InitMain /\ [][NextMain]_vars

\* generate_command_docs called on any list of docs.
InitDocs ==
    /\ docs \in DocLists(MaxDocs)
    /\ pc = "generate"
    /\ cli = << >>
    /\ linesep = NEWLINE
    /\ docs_dir = FALSE
    /\ file = NoFile
    /\ run = 1
    /\ markdown_content = << >>
    /\ content_changed = TRUE
    /\ message = ""
    /\ exit_status = Running
    /\ file_at_start = NoFile
    /\ opened_for_write = FALSE
    /\ failed_at = "none"
    /\ prev_completed = FALSE
    /\ prev_markdown = << >>
    /\ touched_before = FALSE
    /\ touched = FALSE
    /\ EscapeIdle
    /\ FormatIdle

NextDocs == Generate

SpecDocs == InitDocs /\ [][NextDocs]_vars

(***************************************************************************)
(* Properties of escape_html_tags (checked under SpecEscape)               *)
(***************************************************************************)

\* How often character c occurs in s.
Count(s, c) == Cardinality({ i \in 1..Len(s) : s[i] = c })

\* The backtick-delimited code spans of s, in order, backticks included.
CodeSpans(s) ==
    LET parts == SplitCode(s)
    IN [k \in 1..(Len(parts) \div 2) |-> parts[2 * k]]

\* The text of s outside its code spans, in order.
OutsideCode(s) ==
    LET parts == SplitCode(s)
    IN [k \in 1..((Len(parts) + 1) \div 2) |-> parts[2 * k - 1]]

\* How many http://localhost:<NAME> placeholders the first re.sub finds in s.
RECURSIVE CountLocalhostFrom(_, _)
CountLocalhostFrom(s, i) ==
    IF i > Len(s) THEN 0
    ELSE LET gt == MatchLocalhostAt(s, i)
         IN IF gt > 0 THEN 1 + CountLocalhostFrom(s, gt + 1)
            ELSE CountLocalhostFrom(s, i + 1)

\* How many https://host<NAME> placeholders the second re.sub finds in s.
RECURSIVE CountHttpsFrom(_, _)
CountHttpsFrom(s, i) ==
    IF i > Len(s) THEN 0
    ELSE LET m == MatchHttpsAt(s, i)
         IN IF m[2] > 0 THEN 1 + CountHttpsFrom(s, m[2] + 1)
            ELSE CountHttpsFrom(s, i + 1)

\* How many placeholder URLs the escaper wraps in backticks in s.
PlaceholderUrls(s) ==
    CountLocalhostFrom(s, 1) + CountHttpsFrom(WrapLocalhostFrom(s, 1), 1)

HasAngle(s) == \E i \in 1..Len(s) : s[i] \in {"<", ">"}

C5_SecondPassNoOp ==
    (passes = 2 /\ Count(text, BT) = 0) => escaped2 = escaped

\* The only angle brackets of s are those of http://localhost:<NAME>
\* placeholders that lie inside code spans (one "<" and one ">" for each).
AnglesOnlyInCodeSpanUrls(s) ==
    /\ \A k \in 1..Len(OutsideCode(s)) : ~HasAngle(OutsideCode(s)[k])
    /\ \E k \in 1..Len(CodeSpans(s)) : HasAngle(CodeSpans(s)[k])
    /\ \A k \in 1..Len(CodeSpans(s)) :
          LET span == CodeSpans(s)[k]
          IN /\ Count(span, "<") = CountLocalhostFrom(span, 1)
             /\ Count(span, ">") = CountLocalhostFrom(span, 1)

\* C6: a text whose only angle brackets belong to a http://localhost:<NAME>
\* placeholder already inside a code span is returned by escape_html_tags
\* identical to its input.
C6_UrlInCodeUntouched ==
    (passes >= 1 /\ AnglesOnlyInCodeSpanUrls(text)) => escaped = text

(***************************************************************************)
(* Properties of the table formatters (checked under SpecFormat)           *)
(***************************************************************************)

\* No "<" or ">" of s lies outside its code spans.
NoRawAngles(s) == \A k \in 1..Len(OutsideCode(s)) : ~HasAngle(OutsideCode(s)[k])

\* C7: in every body row of the options table and of the commands table the
\* description cell holds no raw "<" or ">" outside code spans.
C7_DescriptionsEscaped ==
    /\ \A k \in 1..Len(formatted_options) :
          NoRawAngles(formatted_options[k].description)
    /\ \A k \in 1..Len(formatted_commands) :
          NoRawAngles(formatted_commands[k].description)

HelpLinesOf(help) == split(help, "\n")

\* Some line of the help text equals the header once trimmed.
HasHeaderLine(help, header) ==
    \E i \in 1..Len(HelpLinesOf(help)) : strip(HelpLinesOf(help)[i]) = header

\* The index of the first line >= i that equals the header once trimmed, or
\* one past the last line.
RECURSIVE HeaderFrom(_, _, _)
HeaderFrom(lines, header, i) ==
    IF i > Len(lines) \/ strip(lines[i]) = header THEN i
    ELSE HeaderFrom(lines, header, i + 1)

\* The help text has one "Options:" line and no "Commands:" line before it.
OneOptionsHeaderFirst(help) ==
    LET lines == HelpLinesOf(help)
        o == HeaderFrom(lines, OPTIONS_HEADER, 1)
    IN /\ o <= Len(lines)
       /\ HeaderFrom(lines, OPTIONS_HEADER, o + 1) > Len(lines)
       /\ HeaderFrom(lines, COMMANDS_HEADER, 1) > o

\* The lines between the "Options:" line and the "Commands:" line or the
\* end of the text.
OptionsRegion(help) ==
    LET lines == HelpLinesOf(help)
        o == HeaderFrom(lines, OPTIONS_HEADER, 1)
    IN SubSeq(lines, o + 1, HeaderFrom(lines, COMMANDS_HEADER, o + 1) - 1)

\* Two leading spaces, then a dash.
OptionStartLine(line) == startswith(line, <<" ", " ", "-">>)

\* A non-blank line indented by more than two spaces.
ContinuationLine(line) == startswith(line, <<" ", " ", " ">>) /\ strip(line) # << >>

\* The trimmed continuation lines from line i up to the next option-start
\* line.
RECURSIVE ContinuationsFrom(_, _)
ContinuationsFrom(region, i) ==
    IF i > Len(region) \/ OptionStartLine(region[i]) THEN << >>
    ELSE (IF ContinuationLine(region[i]) THEN << strip(region[i]) >> ELSE << >>)
             \o ContinuationsFrom(region, i + 1)

\* One (option, description) pair per option-start line from line i on, in
\* their order: the description is the initial description part of the line
\* and the trimmed continuation lines after it, joined with single spaces
\* (and escaped as every description cell is).
RECURSIVE ExpectedOptionRowsFrom(_, _)
ExpectedOptionRowsFrom(region, i) ==
    IF i > Len(region) THEN << >>
    ELSE IF OptionStartLine(region[i])
    THEN << [ key |-> StartOption(region[i]).option,
              description |->
                  escape_html_tags(join(<<" ">>,
                      StartOption(region[i]).description
                          \o ContinuationsFrom(region, i + 1))) ] >>
             \o ExpectedOptionRowsFrom(region, i + 1)
    ELSE ExpectedOptionRowsFrom(region, i + 1)

\* C8: format_options_section emits exactly one row per option-start line
\* between the "Options:" line and the "Commands:" line or the end of the
\* text, in their order, and a row's description is the initial description
\* part of its line followed by the trimmed text of every following
\* continuation line (a line indented by more than two spaces), joined with
\* single spaces.  Stated for the help texts with one "Options:" line that no
\* "Commands:" line precedes.
C8_OptionRowsJoinContinuations ==
    ("format_options_section" \in called /\ OneOptionsHeaderFirst(help_text))
        => formatted_options = ExpectedOptionRowsFrom(OptionsRegion(help_text), 1)

\* C9: a help text without an "Options:" line gives the empty string for the
\* options table, and one without a "Commands:" line the empty string for
\* the commands table.
C9_MissingHeaderEmptyTable ==
    /\ ("format_options_section" \in called
            /\ ~HasHeaderLine(help_text, OPTIONS_HEADER))
          => options_section = << >>
    /\ ("format_commands_section" \in called
            /\ ~HasHeaderLine(help_text, COMMANDS_HEADER))
          => commands_section = << >>

\* C9's case: both formatters have run on a help text that has neither
\* header but holds an option line and a command line.
C9_Witness ==
    /\ called = { "format_options_section", "format_commands_section" }
    /\ ~HasHeaderLine(help_text, OPTIONS_HEADER)
    /\ ~HasHeaderLine(help_text, COMMANDS_HEADER)
    /\ \E i \in 1..Len(HelpLinesOf(help_text)) :
          OptionStartLine(HelpLinesOf(help_text)[i])
    /\ \E i \in 1..Len(HelpLinesOf(help_text)) :
          MatchCommandLine(HelpLinesOf(help_text)[i]).matched
    /\ options_section = << >>
    /\ commands_section = << >>

\* The description a command line carries: what follows the command name,
\* trimmed.
SourceDescription(line) == strip(SubSeq(line, SkipWord(line, 3), Len(line)))

\* C10: a command row renders its trimmed source description unchanged when
\* that has at most 80 characters, and otherwise as its first 77 characters
\* followed by "..."; no rendered description is longer than 80 characters.
C10_DescriptionTruncation ==
    \A k \in 1..Len(formatted_commands) :
        LET row == formatted_commands[k]
            source == SourceDescription(row.line)
        IN /\ row.description =
                  IF Len(source) > 80
                  THEN SubSeq(source, 1, 77) \o << ".", ".", "." >>
                  ELSE source
           /\ Len(row.description) <= 80

\* C10's case: a row whose source description is longer than 80 characters
\* was cut to 80.
C10_Witness ==
    \E k \in 1..Len(formatted_commands) :
        /\ Len(SourceDescription(formatted_commands[k].line)) > 80
        /\ Len(formatted_commands[k].description) = 80

(***************************************************************************)
(* Properties of generate_command_docs (checked under SpecDocs)            *)
(***************************************************************************)

HEADING_START == <<"#", "#", "#", " ", "BT">>

\* The names of the "### `name`" headings among the lines from line i on,
\* in their order.
RECURSIVE HeadingsFrom(_, _)
HeadingsFrom(lines, i) ==
    IF i > Len(lines) THEN << >>
    ELSE (IF startswith(lines[i], HEADING_START)
          THEN << SubSeq(lines[i], Len(HEADING_START) + 1, Len(lines[i]) - 1) >>
          ELSE << >>) \o HeadingsFrom(lines, i + 1)

\* The command names of the subsections under "Command Details".
Headings(document) == HeadingsFrom(split(document, "\n"), 1)

\* generate_command_docs has returned.
Generated == pc = "mkdir"

\* C3, as stated: whatever subcommand entries generate_command_docs is
\* given, in whatever order, the subsections appear in strictly ascending
\* lexicographic order of command name.
C3_StrictlyAscending ==
    Generated =>
        \A k \in 1..(Len(Headings(markdown_content)) - 1) :
            StrLess(Headings(markdown_content)[k], Headings(markdown_content)[k + 1])

\* No two subcommand entries have the same command name.
DistinctNames(subcommands) ==
    \A i, j \in 1..Len(subcommands) :
        i # j => NameText(subcommands[i]) # NameText(subcommands[j])

\* C3, amended: there is one subsection per subcommand entry, and they
\* appear in ascending lexicographic order of command name: never a greater
\* name before a smaller one, and strictly ascending when no two entries
\* share a name (entries of nested groups may).
C3_Ascending ==
    Generated =>
        LET h == Headings(markdown_content)
            subcommands == Subcommands(docs)
        IN /\ Len(h) = Len(subcommands)
           /\ \A d \in 1..Len(subcommands) :
                 Cardinality({ k \in 1..Len(h) : h[k] = NameText(subcommands[d]) })
                     = Cardinality({ k \in 1..Len(subcommands) :
                           NameText(subcommands[k]) = NameText(subcommands[d]) })
           /\ \A k \in 1..(Len(h) - 1) : ~StrLess(h[k + 1], h[k])
           /\ DistinctNames(subcommands) =>
                 \A k \in 1..(Len(h) - 1) : StrLess(h[k], h[k + 1])

\* C3's case: two subcommands of different names given in descending order
\* have been rendered.
C3_Witness ==
    /\ Generated
    /\ Len(Subcommands(docs)) = 2
    /\ StrLess(Subcommands(docs)[2].name, Subcommands(docs)[1].name)
    /\ Len(Headings(markdown_content)) = 2

(***************************************************************************)
(* Properties of main (checked under SpecMain)                             *)
(***************************************************************************)

\* C1: when main() is run twice in a row on the same command set (the same
\* assembled document) and nothing else touches the output file, the second
\* run writes nothing and reports "up to date".
C1_SecondRunUpToDate ==
    ( /\ pc = "done"
      /\ run >= 2
      /\ prev_completed
      /\ ~touched_before
      /\ prev_markdown = markdown_content )
        => /\ message = "CLI documentation is up to date"
           /\ ~opened_for_write

\* C2: an exception raised before generate_command_docs has returned leaves
\* the output file as the run found it, never opened for writing, and the
\* script exits with status 1.
C2_FailureLeavesNoOutput ==
    (failed_at \in { "introspect", "generate" } /\ ~touched) =>
        /\ pc \in { "except", "exited" }
        /\ file = file_at_start
        /\ ~opened_for_write
        /\ pc = "exited" => exit_status = 1

\* C2's case: generate_command_docs raised with an output file in place, and
\* the script has exited.
C2_Witness ==
    /\ pc = "exited"
    /\ failed_at = "generate"
    /\ ~touched
    /\ file.exists
    /\ file = file_at_start
    /\ exit_status = 1

=============================================================================
